---- MODULE Spec2Model ----
(***************************************************************************)
(* Coffee Corner LINE RAG bot: startup (config.py, app.py module level),   *)
(* the webhook adapter and the RAG pipeline of SimpleRAGBot (app.py).      *)
(*                                                                         *)
(* Texts are sequences of tokens; a token is a whitespace character or a   *)
(* word.  The Thai reply templates of app.py are written here as ASCII     *)
(* renderings (one word token each), with the source line in a comment.    *)
(***************************************************************************)
EXTENDS Integers, Sequences, FiniteSets, TLC

\* ---------------------------------------------------------------- bounds
\* longest completion content (in tokens) the completion service returns
MaxContentLen == 2

\* ------------------------------------------------------ program constants
\* search_knowledge(self, query, top_k: int = 4)
TopK == 4
\* documents[:2]
SourcesCap == 2
\* response.status_code == 200
HTTP_OK == 200
\* return jsonify({"error": "Invalid signature"}), 400
HTTP_BAD_REQUEST == 400
\* an exception escaping a Flask view is answered with 500
HTTP_SERVER_ERROR == 500

\* ------------------------------------------------------------------ text
Whitespace == {" ", "\n"}
Words == {"latte 45 baht"}
Tokens == Whitespace \cup Words

RECURSIVE LStrip(_)
LStrip(s) ==
    IF s = <<>> THEN <<>>
    ELSE IF Head(s) \in Whitespace THEN LStrip(Tail(s)) ELSE s

RECURSIVE RStrip(_)
RStrip(s) ==
    IF s = <<>> THEN <<>>
    ELSE IF s[Len(s)] \in Whitespace THEN RStrip(SubSeq(s, 1, Len(s) - 1)) ELSE s

\* str.strip()
Strip(s) == RStrip(LStrip(s))

\* ", ".join(names)
RECURSIVE Join(_, _)
Join(names, sep) ==
    IF names = <<>> THEN <<>>
    ELSE IF Len(names) = 1 THEN names
    ELSE <<Head(names), sep>> \o Join(Tail(names), sep)

Range(s) == {s[i] : i \in DOMAIN s}

\* dict.get(key, default)
DictGet(d, key, default) == IF key \in DOMAIN d THEN d[key] ELSE default

\* ----------------------------------------------------------------- config
RequiredOrder ==
    <<"PINECONE_API_KEY", "OPENROUTER_API_KEY",
      "LINE_CHANNEL_ACCESS_TOKEN", "LINE_CHANNEL_SECRET">>
RequiredVars == Range(RequiredOrder)

\* os.getenv: None when the variable is unset, else its (possibly empty) value
None == "<None>"
EnvValues == {None, "", "secret"}

\* Python truthiness of an Optional[str]
Truthy(v) == v # None /\ v # ""

\* the four `if not cls.X: missing.append("X")` statements, in order
RECURSIVE MissingFrom(_, _)
MissingFrom(cfg, names) ==
    IF names = <<>> THEN <<>>
    ELSE (IF ~Truthy(cfg[Head(names)]) THEN <<Head(names)>> ELSE <<>>)
         \o MissingFrom(cfg, Tail(names))

MissingVarsSkipLast(cfg) ==
    MissingFrom(cfg, SubSeq(RequiredOrder, 1, Len(RequiredOrder) - 1))

MissingVars(cfg) == MissingFrom(cfg, RequiredOrder)

\* ValueError(f"Missing environment variables: {', '.join(missing)}")
ConfigError(missing) ==
    [type |-> "ValueError",
     message |-> <<"Missing environment variables: ">> \o Join(missing, ", ")]

NoError == [type |-> "none"]

\* ------------------------------------------------------- reply templates
\* app.py:116  "ขออภัยค่ะ ไม่พบข้อมูล กรุณาติดต่อร้าน LINE @coffeecorner ค่ะ 📞"
NO_KNOWLEDGE_TEXT == <<"Sorry, no information found, please contact the shop on LINE @coffeecorner">>
\* app.py:107 and app.py:122  "ขออภัยค่ะ ไม่สามารถตอบได้ กรุณาติดต่อร้านค่ะ 📞"
CANNOT_ANSWER_TEXT == <<"Sorry, unable to answer, please contact the shop">>
\* app.py:103  "ขออภัยค่ะ ระบบมีปัญหา กรุณาลองใหม่ค่ะ 🙏"
SYSTEM_PROBLEM_TEXT == <<"Sorry, the system has a problem, please try again">>
\* app.py:133  "ขออภัยค่ะ เกิดข้อผิดพลาด กรุณาลองใหม่ค่ะ 🙏"
PIPELINE_ERROR_TEXT == <<"Sorry, an error occurred, please try again">>

\* app.py:117  ["☕ เมนูเครื่องดื่ม", "🕐 เวลาเปิด-ปิด"]
NoKnowledgeQuickReplies == <<"drinks menu", "opening hours">>
\* app.py:126  ["☕ เมนูเครื่องดื่ม", "🍕 เมนูอาหาร", "🕐 เวลาเปิด-ปิด", "📍 ที่อยู่"]
AnswerQuickReplies == <<"drinks menu", "food menu", "opening hours", "address">>
\* app.py:134  ["☕ เมนู", "📞 ติดต่อร้าน"]
PipelineErrorQuickReplies == <<"menu", "contact the shop">>

NoKnowledgeReply ==
    [reply |-> NO_KNOWLEDGE_TEXT, quick_replies |-> NoKnowledgeQuickReplies]

PipelineErrorReply ==
    [reply |-> PIPELINE_ERROR_TEXT, quick_replies |-> PipelineErrorQuickReplies]

\* -------------------------------------------------------------- retrieval
\* metadata stored with a vector; the title may be missing
Metadatas ==
    { [title |-> "latte menu", content |-> "45 baht"],
      [title |-> "opening hours", content |-> "8:00-20:00"],
      [content |-> "parking behind the shop"] }

\* a match of index.query; a vector stored without metadata has no such key
Matches ==
    { [metadata |-> m, score |-> 1] : m \in Metadatas } \cup { [score |-> 1] }

RECURSIVE SeqsUpTo(_, _)
SeqsUpTo(S, n) ==
    IF n = 0 THEN {<<>>}
    ELSE LET shorter == SeqsUpTo(S, n - 1)
         IN  shorter \cup {Append(q, e) : q \in {r \in shorter : Len(r) = n - 1}, e \in S}

\* what embedder.encode + index.query can do: encode raises before any
\* request is sent, the query raises (network, auth), or it answers with at
\* most top_k matches
RetrievalOutcomes ==
    { [kind |-> "encode_raise"], [kind |-> "query_raise"] }
    \cup { [kind |-> "matches", matches |-> ms] : ms \in SeqsUpTo(Matches, TopK) }

\* the loop body of search_knowledge raises KeyError on match['metadata']
WellFormed(ms) == \A i \in DOMAIN ms : "metadata" \in DOMAIN ms[i]

\* documents.append({'title': ..., 'content': ..., 'score': ...})
ToDocuments(ms) ==
    [i \in DOMAIN ms |->
        [title |-> DictGet(ms[i].metadata, "title", ""),
         content |-> DictGet(ms[i].metadata, "content", ""),
         score |-> ms[i].score]]

\* search_knowledge: the documents, or the exception it lets escape
SearchKnowledge(out) ==
    IF out.kind = "matches" /\ WellFormed(out.matches)
    THEN [kind |-> "return", documents |-> ToDocuments(out.matches)]
    ELSE [kind |-> "raise"]

\* the vector query is sent unless encode raised first
QuerySent(out) == out.kind # "encode_raise"

\* ------------------------------------------------------------- generation
NoPrompt == [built |-> FALSE]

\* the f-string of generate_response: preamble, one line per document, question
BuildPrompt(query, context_docs) ==
    [built |-> TRUE,
     preamble |-> "Coffee Corner assistant rules",
     context |-> [i \in DOMAIN context_docs |->
                    <<"doc ", context_docs[i].title, ": ", context_docs[i].content>>],
     question |-> query]

Statuses == {200, 201, 500}

\* what requests.post can do: raise (timeout, connection error), or answer
\* with a status and a body; the body parses to a content string, or does
\* not have the choices[0].message.content shape
Bodies ==
    { [shape |-> "content", content |-> c] : c \in SeqsUpTo(Tokens, MaxContentLen) }
    \cup { [shape |-> "malformed"] }

CompletionOutcomes ==
    { [kind |-> "raise"] }
    \cup { [kind |-> "http", status |-> st, body |-> b] : st \in Statuses, b \in Bodies }

CallOpenRouterLeak(resp) ==
    IF resp.kind = "raise" THEN CANNOT_ANSWER_TEXT
    ELSE IF resp.status = HTTP_OK
         THEN IF resp.body.shape = "content" THEN Strip(resp.body.content)
              ELSE CANNOT_ANSWER_TEXT
         ELSE <<"OpenRouter Error">>

CallOpenRouterOneText(resp) ==
    IF resp.kind = "raise" THEN CANNOT_ANSWER_TEXT
    ELSE IF resp.status = HTTP_OK
         THEN IF resp.body.shape = "content" THEN Strip(resp.body.content)
              ELSE CANNOT_ANSWER_TEXT
         ELSE CANNOT_ANSWER_TEXT

\* _call_openrouter: every exception inside the try returns the line-107 text
CallOpenRouter(resp) ==
    IF resp.kind = "raise" THEN CANNOT_ANSWER_TEXT
    ELSE IF resp.status = HTTP_OK
         THEN IF resp.body.shape = "content" THEN Strip(resp.body.content)
              ELSE CANNOT_ANSWER_TEXT
         ELSE SYSTEM_PROBLEM_TEXT

AnswerOrFallbackNone(answer) == answer

\* if not answer.strip(): answer = <fallback>
AnswerOrFallback(answer) ==
    IF Strip(answer) = <<>> THEN CANNOT_ANSWER_TEXT ELSE answer

SourcesUncapped(documents) == [i \in DOMAIN documents |-> documents[i].title]

\* [doc['title'] for doc in documents[:2]]
Sources(documents) ==
    LET head == SubSeq(documents, 1, IF Len(documents) < SourcesCap
                                     THEN Len(documents) ELSE SourcesCap)
    IN  [i \in DOMAIN head |-> head[i].title]

AnswerReply(answer, documents) ==
    [reply |-> answer, quick_replies |-> AnswerQuickReplies,
     sources |-> Sources(documents)]

NoDocumentsNever(documents) == FALSE

\* if not documents:
NoDocuments(documents) == documents = <<>>

OnPipelineExceptionRaise == [kind |-> "raise"]

OnPipelineExceptionNoKnowledge == [kind |-> "return", value |-> NoKnowledgeReply]

\* except Exception as e: return {...}
OnPipelineException == [kind |-> "return", value |-> PipelineErrorReply]

\* ---------------------------------------------------------------- webhook
\* longest list of events one webhook callback carries
MaxEvents == 2

UserMessages == {"", "how much is a latte?"}

\* events of a callback body: text messages, and events no handler is added for
Events ==
    { [type |-> "text", text |-> m] : m \in UserMessages } \cup { [type |-> "other"] }

Callbacks ==
    [signature_valid : BOOLEAN, events : SeqsUpTo(Events, MaxEvents)]

WebhookStatusAlwaysOK(outcome) == HTTP_OK

\* webhook(): the status sent for each way handler.handle can end
WebhookStatus(outcome) ==
    IF outcome = "ok" THEN HTTP_OK
    ELSE IF outcome = "InvalidSignatureError" THEN HTTP_BAD_REQUEST
    ELSE HTTP_SERVER_ERROR

NextAfterCompletionRetry(resp) == IF resp.kind = "raise" THEN "generate" ELSE "respond"

\* generate_response returns what the single _call_openrouter call returned
NextAfterCompletion(resp) == "respond"

\* ------------------------------------------------------------------ state
VARIABLES
    env,            \* Config class attributes read from the environment
    boot,           \* position of module-level startup code
    startupError,   \* exception that ended startup
    constructed,    \* module-level objects built so far
    listening,      \* app.run has bound the listener
    pc,             \* position of the request being served
    signature_valid, \* whether the callback's signature matches its body
    events,         \* events parsed from the callback's body
    dispatched,     \* how many of them handler.handle has gone through
    invoked,        \* process_message calls made for the callback
    user_message,   \* argument of the running process_message
    retrieval,      \* what the retrieval step did
    documents,      \* documents returned by search_knowledge
    prompt,         \* prompt built by generate_response
    completion,     \* what the completion call did
    answer,         \* string returned by generate_response
    pm_out,         \* how process_message ended
    calls,          \* outbound calls of the running process_message
    replies,        \* line_bot_api.reply_message calls that succeeded
    http_response   \* status answered to the callback, 0 while none

vars == <<env, boot, startupError, constructed, listening, pc, signature_valid,
          events, dispatched, invoked, user_message, retrieval, documents, prompt, completion, answer,
          pm_out, calls, replies, http_response>>

startVars == <<env, boot, startupError, constructed, listening>>
requestVars == <<signature_valid, events, dispatched, invoked, replies, http_response>>
messageVars == <<user_message, retrieval, documents, prompt, completion, answer,
                 pm_out, calls>>

NoOutcome == [kind |-> "none"]

Init ==
    /\ env \in [RequiredVars -> EnvValues]
    /\ boot = "validate"
    /\ startupError = NoError
    /\ constructed = {}
    /\ listening = FALSE
    /\ pc = "idle"
    /\ signature_valid = FALSE
    /\ events = <<>>
    /\ dispatched = 0
    /\ invoked = 0
    /\ user_message = ""
    /\ retrieval = NoOutcome
    /\ documents = <<>>
    /\ prompt = NoPrompt
    /\ completion = NoOutcome
    /\ answer = <<>>
    /\ pm_out = NoOutcome
    /\ calls = <<>>
    /\ replies = 0
    /\ http_response = 0

\* ---------------------------------------------------------------- startup
\* app.py:18  Config.validate_config()
ValidateConfig ==
    /\ boot = "validate"
    /\ LET missing == MissingVars(env)
       IN  IF missing # <<>>
           THEN /\ boot' = "failed"
                /\ startupError' = ConfigError(missing)
           ELSE /\ boot' = "flask"
                /\ startupError' = startupError
    /\ UNCHANGED <<env, constructed, listening, pc, requestVars, messageVars>>

\* app.py:19  app = Flask(__name__)
CreateApp ==
    /\ boot = "flask"
    /\ constructed' = constructed \cup {"app"}
    /\ boot' = "line_bot_api"
    /\ UNCHANGED <<env, startupError, listening, pc, requestVars, messageVars>>

\* app.py:21  line_bot_api = LineBotApi(...)
CreateLineBotApi ==
    /\ boot = "line_bot_api"
    /\ constructed' = constructed \cup {"line_bot_api"}
    /\ boot' = "handler"
    /\ UNCHANGED <<env, startupError, listening, pc, requestVars, messageVars>>

\* app.py:22  handler = WebhookHandler(...)
CreateWebhookHandler ==
    /\ boot = "handler"
    /\ constructed' = constructed \cup {"handler"}
    /\ boot' = "rag_bot"
    /\ UNCHANGED <<env, startupError, listening, pc, requestVars, messageVars>>

\* app.py:137  rag_bot = SimpleRAGBot(); loading the index client or the
\* embedding model may raise
CreateRagBot ==
    /\ boot = "rag_bot"
    /\ \E loaded \in BOOLEAN :
        IF loaded
        THEN /\ constructed' = constructed \cup {"rag_bot"}
             /\ boot' = "main"
             /\ startupError' = startupError
        ELSE /\ constructed' = constructed
             /\ boot' = "crashed"
             /\ startupError' = [type |-> "ModelUnavailable"]
    /\ UNCHANGED <<env, listening, pc, requestVars, messageVars>>

\* app.py:210  app.run(host='0.0.0.0', port=8000, debug=True)
RunApp ==
    /\ boot = "main"
    /\ listening' = TRUE
    /\ boot' = "serving"
    /\ UNCHANGED <<env, startupError, constructed, pc, requestVars, messageVars>>

\* ---------------------------------------------------------------- serving
\* the locals of handle_message and process_message before and after a call
ResetMessage ==
    /\ user_message' = ""
    /\ retrieval' = NoOutcome
    /\ documents' = <<>>
    /\ prompt' = NoPrompt
    /\ completion' = NoOutcome
    /\ answer' = <<>>
    /\ pm_out' = NoOutcome
    /\ calls' = <<>>

\* app.py:143-144  a POST /webhook arrives; signature and body are read
WebhookReceive ==
    /\ boot = "serving"
    /\ pc \in {"idle", "done"}
    /\ \E cb \in Callbacks :
        /\ signature_valid' = cb.signature_valid
        /\ events' = cb.events
    /\ dispatched' = 0
    /\ invoked' = 0
    /\ replies' = 0
    /\ http_response' = 0
    /\ pc' = "webhook"
    /\ UNCHANGED <<startVars, messageVars>>

\* app.py:147,149-150  handler.handle raises InvalidSignatureError before
\* it dispatches any event
WebhookInvalidSignature ==
    /\ pc = "webhook"
    /\ ~signature_valid
    /\ http_response' = WebhookStatus("InvalidSignatureError")
    /\ pc' = "done"
    /\ UNCHANGED <<startVars, signature_valid, events, dispatched, invoked, replies,
                   messageVars>>

\* app.py:147  the signature is accepted; the events are dispatched in order
WebhookAccept ==
    /\ pc = "webhook"
    /\ signature_valid
    /\ pc' = "dispatch"
    /\ UNCHANGED <<startVars, requestVars, messageVars>>

\* app.py:152  an event with no handler added for it is skipped
DispatchSkip ==
    /\ pc = "dispatch"
    /\ dispatched < Len(events)
    /\ events[dispatched + 1].type # "text"
    /\ dispatched' = dispatched + 1
    /\ UNCHANGED <<startVars, pc, signature_valid, events, invoked, replies,
                   http_response, messageVars>>

\* app.py:153-161  handle_message starts and calls process_message
HandleMessage ==
    /\ pc = "dispatch"
    /\ dispatched < Len(events)
    /\ events[dispatched + 1].type = "text"
    /\ dispatched' = dispatched + 1
    /\ invoked' = invoked + 1
    /\ user_message' = events[dispatched + 1].text
    /\ pc' = "search"
    /\ UNCHANGED <<startVars, signature_valid, events, replies, http_response, retrieval,
                   documents, prompt, completion, answer, pm_out, calls>>

\* app.py:148  handler.handle returned: {"status": "OK"}
WebhookOK ==
    /\ pc = "dispatch"
    /\ dispatched = Len(events)
    /\ http_response' = WebhookStatus("ok")
    /\ pc' = "done"
    /\ UNCHANGED <<startVars, signature_valid, events, dispatched, invoked, replies,
                   messageVars>>

\* app.py:112-118 and 130-135  retrieval, then the empty-result return or the
\* exception handler
Retrieve ==
    /\ pc = "search"
    /\ \E out \in RetrievalOutcomes :
        LET found == SearchKnowledge(out)
        IN  /\ retrieval' = out
            /\ calls' = IF QuerySent(out) THEN Append(calls, "query") ELSE calls
            /\ IF found.kind = "raise"
               THEN /\ documents' = documents
                    /\ pm_out' = OnPipelineException
                    /\ pc' = "returned"
               ELSE /\ documents' = found.documents
                    /\ IF NoDocuments(found.documents)
                       THEN /\ pm_out' = [kind |-> "return", value |-> NoKnowledgeReply]
                            /\ pc' = "returned"
                       ELSE /\ pm_out' = pm_out
                            /\ pc' = "augment"
    /\ UNCHANGED <<startVars, requestVars, user_message, prompt, completion, answer>>

\* app.py:59-76  generate_response builds the prompt
Augment ==
    /\ pc = "augment"
    /\ prompt' = BuildPrompt(user_message, documents)
    /\ pc' = "generate"
    /\ UNCHANGED <<startVars, requestVars, user_message, retrieval, documents,
                   completion, answer, pm_out, calls>>

\* app.py:78-107  the completion call
Generate ==
    /\ pc = "generate"
    /\ \E resp \in CompletionOutcomes :
        /\ completion' = resp
        /\ answer' = CallOpenRouter(resp)
        /\ pc' = NextAfterCompletion(resp)
    /\ calls' = Append(calls, "completion")
    /\ UNCHANGED <<startVars, requestVars, user_message, retrieval, documents,
                   prompt, pm_out>>

\* app.py:121-128  blank answer replaced, reply returned
Respond ==
    /\ pc = "respond"
    /\ pm_out' = [kind |-> "return",
                  value |-> AnswerReply(AnswerOrFallback(answer), documents)]
    /\ pc' = "returned"
    /\ UNCHANGED <<startVars, requestVars, user_message, retrieval, documents,
                   prompt, completion, answer, calls>>

\* app.py:162-176  handle_message sends the reply and returns, which ends the
\* life of its locals; reply_message may raise, and so does the handler if
\* process_message did not return
ReplyMessage ==
    /\ pc = "returned"
    /\ \E sent \in BOOLEAN :
        IF sent /\ pm_out.kind = "return" /\ "reply" \in DOMAIN pm_out.value
        THEN /\ replies' = replies + 1
             /\ http_response' = http_response
             /\ pc' = "dispatch"
        ELSE /\ replies' = replies
             /\ http_response' = WebhookStatus("Exception")
             /\ pc' = "done"
    /\ ResetMessage
    /\ UNCHANGED <<startVars, signature_valid, events, dispatched, invoked>>

Next ==
    \/ ValidateConfig
    \/ CreateApp
    \/ CreateLineBotApi
    \/ CreateWebhookHandler
    \/ CreateRagBot
    \/ RunApp
    \/ WebhookReceive
    \/ WebhookInvalidSignature
    \/ WebhookAccept
    \/ DispatchSkip
    \/ HandleMessage
    \/ WebhookOK
    \/ Retrieve
    \/ Augment
    \/ Generate
    \/ Respond
    \/ ReplyMessage

Spec == Init /\ [][Next]_vars

TypeOK ==
    /\ boot \in {"validate", "failed", "flask", "line_bot_api", "handler",
                 "rag_bot", "crashed", "main", "serving"}
    /\ pc \in {"idle", "webhook", "dispatch", "search", "augment", "generate",
               "respond", "returned", "done"}
    /\ http_response \in {0, HTTP_OK, HTTP_BAD_REQUEST, HTTP_SERVER_ERROR}
    /\ Len(events) <= MaxEvents
    /\ dispatched \in 0..Len(events)
    /\ invoked \in 0..dispatched
    /\ replies \in 0..invoked

\* ----------------------------------------------------------- properties
IsSequence(x) == DOMAIN x = 1..Len(x)

IsStringSeq(x) == IsSequence(x) /\ \A i \in DOMAIN x : x[i] \in STRING

\* process_message has ended and the caller holds its result
Ended == pc = "returned"

Returned == Ended /\ pm_out.kind = "return"

RetrievalRaised == retrieval.kind \in {"encode_raise", "query_raise"}

RetrievalEmpty == retrieval.kind = "matches" /\ retrieval.matches = <<>>

CompletionCalled == completion.kind # "none"

\* C1 (as stated): process_message never raises, and every value it returns
\* carries a reply text, a quick_replies sequence and a sources sequence.
C1_Original ==
    /\ pm_out.kind # "raise"
    /\ Ended => pm_out.kind = "return"
    /\ pm_out.kind = "return" =>
        {"reply", "quick_replies", "sources"} \subseteq DOMAIN pm_out.value

\* C1 (amended): process_message never raises; every value it returns carries
\* a reply text and a quick_replies sequence, and carries a sources sequence
\* exactly when the completion step was reached (the NO_KNOWLEDGE and
\* PIPELINE_ERROR replies have no sources key).
C1_NeverRaises ==
    /\ pm_out.kind # "raise"
    /\ Ended => pm_out.kind = "return"
    /\ pm_out.kind = "return" =>
        LET r == pm_out.value
        IN  /\ {"reply", "quick_replies"} \subseteq DOMAIN r
            /\ DOMAIN r \subseteq {"reply", "quick_replies", "sources"}
            /\ IsStringSeq(r.reply)
            /\ IsStringSeq(r.quick_replies)
            /\ ("sources" \in DOMAIN r) <=> CompletionCalled
            /\ "sources" \in DOMAIN r => IsStringSeq(r.sources)

C1_Witness ==
    /\ Returned
    /\ retrieval.kind = "query_raise"
    /\ "sources" \notin DOMAIN pm_out.value

\* C2: when the vector query returns no match, process_message returns the
\* NO_KNOWLEDGE text with its 2 quick replies and the completion service is
\* not called.
C2_EmptyRetrieval ==
    RetrievalEmpty =>
        /\ Returned
        /\ pm_out.value.reply = NO_KNOWLEDGE_TEXT
        /\ pm_out.value.quick_replies = <<"drinks menu", "opening hours">>
        /\ Len(pm_out.value.quick_replies) = 2
        /\ ~CompletionCalled
        /\ "completion" \notin Range(calls)

C2_Witness == RetrievalEmpty /\ Returned /\ calls = <<"query">>

\* C3 (as stated): when the embedding/query step raises, process_message
\* returns the NO_KNOWLEDGE reply and the completion service is not called.
C3_Original ==
    RetrievalRaised =>
        /\ Returned
        /\ pm_out.value = NoKnowledgeReply
        /\ ~CompletionCalled

\* C3 (amended): when the embedding/query step raises, process_message
\* returns the PIPELINE_ERROR reply (its text and its 2 quick replies) and
\* the completion service is not called.
C3_RetrievalErrorReply ==
    RetrievalRaised =>
        /\ Returned
        /\ pm_out.value.reply = PIPELINE_ERROR_TEXT
        /\ pm_out.value.quick_replies = <<"menu", "contact the shop">>
        /\ ~CompletionCalled
        /\ "completion" \notin Range(calls)

C3_Witness == retrieval.kind = "query_raise" /\ Returned /\ calls = <<"query">>

CompletionRaised == completion.kind = "raise"

CompletionStatusIn(S) == completion.kind = "http" /\ completion.status \in S

Non2xx == {st \in Statuses : st < 200 \/ st > 299}

All2xx == {st \in Statuses : st >= 200 /\ st <= 299}

\* sources are the titles of the leading retrieved documents, and not empty
SourcesFromRetrieval(r) ==
    /\ "sources" \in DOMAIN r
    /\ r.sources # <<>>
    /\ \A i \in DOMAIN r.sources :
        i \in DOMAIN documents /\ r.sources[i] = documents[i].title

\* C4 (as stated): when documents were retrieved and the completion call
\* raises, times out or answers with a non-2xx status, the reply is the one
\* fixed generation fallback text, not the PIPELINE_ERROR text, and sources
\* is non-empty and taken from the retrieved titles.
C4_Original ==
    (Ended /\ documents # <<>> /\ (CompletionRaised \/ CompletionStatusIn(Non2xx))) =>
        /\ pm_out.kind = "return"
        /\ pm_out.value.reply = CANNOT_ANSWER_TEXT
        /\ pm_out.value.reply # PIPELINE_ERROR_TEXT
        /\ SourcesFromRetrieval(pm_out.value)

\* C4 (amended): in that case the reply is one of two fixed generation
\* fallback texts: the "unable to answer" text when the call raises or times
\* out, the "system has a problem" text when it answers with a non-2xx
\* status; never the PIPELINE_ERROR text, and sources is non-empty and taken
\* from the retrieved titles.
C4_GenerationFailure ==
    (Ended /\ documents # <<>> /\ (CompletionRaised \/ CompletionStatusIn(Non2xx))) =>
        /\ pm_out.kind = "return"
        /\ CompletionRaised => pm_out.value.reply = CANNOT_ANSWER_TEXT
        /\ CompletionStatusIn(Non2xx) => pm_out.value.reply = SYSTEM_PROBLEM_TEXT
        /\ pm_out.value.reply # PIPELINE_ERROR_TEXT
        /\ SourcesFromRetrieval(pm_out.value)

C4_Witness ==
    /\ Returned
    /\ CompletionRaised
    /\ Len(documents) >= 1
    /\ pm_out.value.reply = CANNOT_ANSWER_TEXT
    /\ pm_out.value.sources # <<>>

\* the reply is the trimmed, non-blank content the completion service sent
ReplyIsGenerated(r) ==
    /\ completion.kind = "http"
    /\ completion.body.shape = "content"
    /\ LStrip(RStrip(completion.body.content)) # <<>>
    /\ r.reply = LStrip(RStrip(completion.body.content))

\* C5 (as stated): every reply text is the generated text or one of exactly
\* three fixed templates (no-knowledge, empty-generation, pipeline-error).
C5_Original ==
    Returned =>
        \/ ReplyIsGenerated(pm_out.value)
        \/ pm_out.value.reply \in
            {NO_KNOWLEDGE_TEXT, CANNOT_ANSWER_TEXT, PIPELINE_ERROR_TEXT}

\* C5 (amended): every reply text is the generated text or one of exactly
\* four fixed templates: no-knowledge, empty-generation, pipeline-error, and
\* the "system has a problem" text returned for a completion status other
\* than 200.
C5_ReplyTexts ==
    Returned =>
        \/ ReplyIsGenerated(pm_out.value) /\ completion.status = 200
        \/ pm_out.value.reply \in
            {NO_KNOWLEDGE_TEXT, CANNOT_ANSWER_TEXT, PIPELINE_ERROR_TEXT}
        \/ /\ pm_out.value.reply = SYSTEM_PROBLEM_TEXT
           /\ completion.kind = "http"
           /\ completion.status # 200

C5_Witness ==
    /\ Returned
    /\ completion.kind = "http"
    /\ completion.status = 500
    /\ pm_out.value.reply = SYSTEM_PROBLEM_TEXT

IsBlank(text) == \A i \in DOMAIN text : text[i] \in {" ", "\n"}

BlankContent ==
    /\ completion.kind = "http"
    /\ completion.body.shape = "content"
    /\ IsBlank(completion.body.content)

\* C6 (as stated): for a non-empty user message the reply text is never
\* empty or whitespace-only, and a 2xx completion response with blank
\* content yields the EmptyGeneration fallback text.
C6_Original ==
    (Ended /\ user_message # "") =>
        /\ pm_out.kind = "return"
        /\ ~IsBlank(pm_out.value.reply)
        /\ (BlankContent /\ CompletionStatusIn(All2xx)) =>
                pm_out.value.reply = CANNOT_ANSWER_TEXT

\* C6 (amended): for a non-empty user message the reply text is never empty
\* or whitespace-only, and a completion response with status 200 and blank
\* content yields the EmptyGeneration fallback text.
C6_NonEmptyReply ==
    (Ended /\ user_message # "") =>
        /\ pm_out.kind = "return"
        /\ ~IsBlank(pm_out.value.reply)
        /\ (BlankContent /\ CompletionStatusIn({200})) =>
                pm_out.value.reply = CANNOT_ANSWER_TEXT

C6_Witness ==
    /\ Returned
    /\ user_message # ""
    /\ CompletionStatusIn({200})
    /\ BlankContent
    /\ completion.body.content # <<>>
    /\ pm_out.value.reply = CANNOT_ANSWER_TEXT

\* C7: on the generation path, sources is the titles of the first min(2, n)
\* of the n retrieved documents, in retrieval order, never more than 2.
C7_Sources ==
    (Returned /\ CompletionCalled) =>
        /\ retrieval.kind = "matches"
        /\ "sources" \in DOMAIN pm_out.value
        /\ LET src == pm_out.value.sources
               n == Len(retrieval.matches)
           IN  /\ n <= 4
               /\ Len(src) = (IF n < 2 THEN n ELSE 2)
               /\ Len(src) <= 2
               /\ \A i \in 1..Len(src) :
                    src[i] = (IF "title" \in DOMAIN retrieval.matches[i].metadata
                              THEN retrieval.matches[i].metadata.title ELSE "")

C7_Witness ==
    /\ Returned
    /\ CompletionCalled
    /\ Len(retrieval.matches) = 4
    /\ pm_out.value.sources = <<"opening hours", "latte menu">>
    /\ DictGet(retrieval.matches[3].metadata, "title", "") = "latte menu"

\* the required secrets that are unset or empty
MissingSet == {v \in RequiredVars : env[v] = None \/ env[v] = ""}

\* C8: with a required secret absent or empty, startup fails in
\* validate_config with a message naming every missing variable, before the
\* LINE client, the webhook handler or the RAG bot exist and before the
\* listener is bound; with none missing, validation succeeds.
C8_StartupValidation ==
    /\ MissingSet # {} =>
        /\ boot \in {"validate", "failed"}
        /\ constructed \cap {"line_bot_api", "handler", "rag_bot"} = {}
        /\ ~listening
        /\ pc = "idle"
    /\ (MissingSet # {} /\ boot # "validate") =>
        /\ boot = "failed"
        /\ startupError.type = "ValueError"
        /\ Range(startupError.message) \cap RequiredVars = MissingSet
    /\ (MissingSet = {} /\ boot # "validate") =>
        /\ boot # "failed"
        /\ startupError.type # "ValueError"

C8_Witness ==
    /\ boot = "failed"
    /\ MissingSet = {"OPENROUTER_API_KEY", "LINE_CHANNEL_SECRET"}
    /\ env["OPENROUTER_API_KEY"] = ""
    /\ env["LINE_CHANNEL_SECRET"] = None
    /\ startupError.message =
        <<"Missing environment variables: ", "OPENROUTER_API_KEY", ", ",
          "LINE_CHANNEL_SECRET">>

\* C9: a callback with an invalid signature is answered with HTTP 400, and
\* for it process_message is never invoked and no reply is sent.
C9_InvalidSignature ==
    (pc # "idle" /\ ~signature_valid) =>
        /\ pc \in {"webhook", "done"}
        /\ pc = "done" => http_response = 400
        /\ invoked = 0
        /\ dispatched = 0
        /\ replies = 0
        /\ pm_out.kind = "none"
        /\ calls = <<>>

C9_Witness ==
    /\ pc = "done"
    /\ ~signature_valid
    /\ http_response = 400
    /\ \E i \in DOMAIN events : events[i].type = "text"

NumberOf(call, log) == Cardinality({i \in DOMAIN log : log[i] = call})

\* C10: a process_message call makes at most one vector query and at most
\* one completion call; the completion call is made only after the query
\* returned a non-empty result and the prompt was built from it, and no
\* outbound call follows it.
C10_CallOrder ==
    /\ [](/\ NumberOf("query", calls) <= 1
          /\ NumberOf("completion", calls) <= 1
          /\ calls \in {<<>>, <<"query">>, <<"query", "completion">>}
          /\ "completion" \in Range(calls) =>
                /\ retrieval.kind = "matches"
                /\ retrieval.matches # <<>>
                /\ Len(documents) = Len(retrieval.matches)
                /\ prompt.built
                /\ prompt.question = user_message
                /\ Len(prompt.context) = Len(documents))
    /\ [][/\ (Len(calls') > Len(calls) /\ calls'[Len(calls')] = "completion") =>
                /\ calls = <<"query">>
                /\ retrieval.kind = "matches"
                /\ documents # <<>>
                /\ prompt.built
          /\ "completion" \in Range(calls) => (calls' = calls \/ calls' = <<>>)
         ]_vars

C10_Witness ==
    /\ Returned
    /\ calls = <<"query", "completion">>
    /\ completion.kind = "raise"

====
